---- MODULE Spec2Model ----
(***************************************************************************)
(* Class scheduler back end: the recurrence expander                       *)
(* (utils/schedule-generator.util.ts), the conflict detector and the       *)
(* request handlers of controllers/class.controller.ts (the version the    *)
(* router mounts, lines 339-765), and the cache-aside layer                *)
(* (middleware/cache.middleware.ts, utils/cache-helper).                   *)
(*                                                                         *)
(* Instants are minutes since local midnight of 1 January 2024 (a Monday). *)
(* The server's civil timezone has no daylight-saving shifts, so one day   *)
(* is 1440 minutes.                                                        *)
(***************************************************************************)
EXTENDS Integers, Sequences, FiniteSets, TLC

VARIABLES
    store,      \* the ClassSchedule collection: series id -> document
    cache,      \* redis: the set of cached class-list responses
    reqs,       \* request slot -> the handler invocation running in it
    now,        \* the wall clock read by new Date()
    payload,    \* expander harness: the request body under expansion
    result      \* expander harness: what generateAllClassSessions gave

vars == <<store, cache, reqs, now, payload, result>>

(***************************************************************************)
(* Calendar (what Date and date-fns compute)                               *)
(***************************************************************************)
MinutesPerDay == 24 * 60

Epoch == [year |-> 2024, weekday |-> 1]

At(day, hour, minute) == day * MinutesPerDay + hour * 60 + minute

IsLeapYear(y) == (y % 4 = 0 /\ y % 100 # 0) \/ y % 400 = 0

DaysInMonth(y, m) ==
    IF m = 2 THEN (IF IsLeapYear(y) THEN 29 ELSE 28)
    ELSE IF m \in {4, 6, 9, 11} THEN 30 ELSE 31

RECURSIVE CivilFrom(_, _, _)
CivilFrom(y, m, rem) ==
    IF rem < DaysInMonth(y, m)
    THEN [year |-> y, month |-> m, date |-> rem + 1]
    ELSE CivilFrom(IF m = 12 THEN y + 1 ELSE y,
                   IF m = 12 THEN 1 ELSE m + 1,
                   rem - DaysInMonth(y, m))

Civil(t) == CivilFrom(Epoch.year, 1, t \div MinutesPerDay)

getDate(t) == Civil(t).date

getDay(t) == (Epoch.weekday + (t \div MinutesPerDay)) % 7

lastDayOfMonth(t) == DaysInMonth(Civil(t).year, Civil(t).month)

\* A variant that never recognises the last day of a month.
isLastDayOfMonthNever(t) == FALSE

isLastDayOfMonth(t) == getDate(t) = lastDayOfMonth(t)

addDays(t, n) == t + n * MinutesPerDay

addMinutes(t, n) == t + n

\* Full days / full weeks between two instants, later >= earlier.
\* A variant that counts no day: every day looks like the first.
differenceInDaysZero(later, earlier) == 0

differenceInDays(later, earlier) == (later - earlier) \div MinutesPerDay

\* A variant that counts no week: every week looks like the first.
differenceInWeeksZero(later, earlier) == 0

differenceInWeeks(later, earlier) == differenceInDays(later, earlier) \div 7

\* Date.setHours(h, m, 0, 0): the civil day of t at h:m.
setHours(t, h, m) == (t \div MinutesPerDay) * MinutesPerDay + h * 60 + m

(***************************************************************************)
(* Values of a request body                                                *)
(***************************************************************************)
\* A date field: a Date, an Invalid Date, or undefined.
DateOf(t) == [tag |-> "date", t |-> t]
InvalidDate == [tag |-> "invalid", t |-> 0]
Absent == [tag |-> "absent", t |-> 0]

\* An "HH:mm" string; nan marks a string whose parts do not parse as numbers.
Time(h, m) == [nan |-> FALSE, h |-> h, m |-> m]
BadTime == [nan |-> TRUE, h |-> 0, m |-> 0]

Slot(s, e) == [startTime24h |-> s, endTime24h |-> e]

Session(s, e) == [sessionStartDateTime |-> s, sessionEndDateTime |-> e]

Failure(kind) == [ok |-> FALSE, err |-> kind, sessions |-> <<>>]
Success(sessions) == [ok |-> TRUE, err |-> "", sessions |-> sessions]

(***************************************************************************)
(* Bounds of the model                                                     *)
(***************************************************************************)
\* A create or a detach starts only while the collection holds fewer series.
MaxSeries == 2

\* A cancel or a detach starts only on a series holding fewer exceptions.
MaxExceptions == 1

(***************************************************************************)
(* Recurrence expander                                                     *)
(***************************************************************************)
MINIMUM_ALLOWED_DURATION_MINUTES == 30

FUTURE_BUFFER_MINUTES == 30

\* Either a valid session or the error the function throws.
createValidClassSessionFromDateAndTimes(baseDate, startTime24h, endTime24h) ==
    LET sessionStart == setHours(baseDate, startTime24h.h, startTime24h.m)
        sessionEnd == setHours(baseDate, endTime24h.h, endTime24h.m)
        actualDurationMinutes == sessionEnd - sessionStart
    IN  IF startTime24h.nan \/ endTime24h.nan
        THEN [ok |-> FALSE, err |-> "InvalidTimeFormat", session |-> Session(0, 0)]
        ELSE IF sessionEnd <= sessionStart
        THEN [ok |-> FALSE, err |-> "InvalidTimeRange", session |-> Session(0, 0)]
        ELSE IF actualDurationMinutes < MINIMUM_ALLOWED_DURATION_MINUTES
        THEN [ok |-> FALSE, err |-> "DurationTooShort", session |-> Session(0, 0)]
        ELSE [ok |-> TRUE, err |-> "",
              session |-> Session(sessionStart, sessionEnd)]

\* A variant without the buffer: a session is kept from the clock onwards.
earliestAllowedStartIsNow(clock) == clock

earliestAllowedStart(clock) == addMinutes(clock, FUTURE_BUFFER_MINUTES)

\* dailyTimeSlots.forEach on one day: the slots that validate (a throwing slot
\* is caught and skipped) and start at or after the future buffer.
RECURSIVE SessionsOnDay(_, _, _)
SessionsOnDay(baseDate, slots, clock) ==
    IF slots = <<>> THEN <<>>
    ELSE LET made == createValidClassSessionFromDateAndTimes(
                         baseDate, Head(slots).startTime24h, Head(slots).endTime24h)
             keep == made.ok /\
                     made.session.sessionStartDateTime >= earliestAllowedStart(clock)
         IN  (IF keep THEN <<made.session>> ELSE <<>>)
             \o SessionsOnDay(baseDate, Tail(slots), clock)

\* Custom mode 1: manuallyChosenDates.forEach, invalid dates skipped.
RECURSIVE ManualSessions(_, _, _)
ManualSessions(dates, slots, clock) ==
    IF dates = <<>> THEN <<>>
    ELSE (IF Head(dates).tag = "date"
          THEN SessionsOnDay(Head(dates).t, slots, clock)
          ELSE <<>>)
         \o ManualSessions(Tail(dates), slots, clock)

\* Custom mode 2: the while loop over [seriesStartDate, seriesEndDate].
RECURSIVE CustomPatternWalk(_, _, _, _)
CustomPatternWalk(p, currentDate, patternEndDate, clock) ==
    IF ~(currentDate <= patternEndDate) THEN <<>>
    ELSE LET weeksSincePatternStart ==
                 differenceInWeeks(currentDate, p.seriesStartDate.t)
             intervalWeeks ==
                 IF p.repeatEveryXWeeksOrDays >= 1
                 THEN p.repeatEveryXWeeksOrDays ELSE 1
             isMatchingInterval == weeksSincePatternStart % intervalWeeks = 0
             isMatchingWeekday ==
                 p.selectedWeekdays = {} \/ getDay(currentDate) \in p.selectedWeekdays
         IN  (IF isMatchingInterval /\ isMatchingWeekday
              THEN SessionsOnDay(currentDate, p.dailyTimeSlots, clock)
              ELSE <<>>)
             \o CustomPatternWalk(p, addDays(currentDate, 1), patternEndDate, clock)

shouldIncludeThisDay(p, currentDateCursor) ==
    IF p.recurrenceType = "daily"
    THEN differenceInDays(currentDateCursor, p.seriesStartDate.t)
             % p.repeatEveryXWeeksOrDays = 0
    ELSE IF p.recurrenceType = "weekly"
    THEN /\ differenceInWeeks(currentDateCursor, p.seriesStartDate.t)
                % p.repeatEveryXWeeksOrDays = 0
         /\ getDay(currentDateCursor) \in p.selectedWeekdays
    ELSE IF p.recurrenceType = "monthly"
    THEN \/ getDate(currentDateCursor) \in p.selectedMonthDays
         \/ /\ isLastDayOfMonth(currentDateCursor)
            /\ \E d \in p.selectedMonthDays : d > lastDayOfMonth(currentDateCursor)
    ELSE p.recurrenceType = "none"

\* Standard kinds: the while loop from seriesStartDate to recurrenceEndBoundary;
\* "none" breaks after the first day.
RECURSIVE StandardWalk(_, _, _, _)
StandardWalk(p, currentDateCursor, recurrenceEndBoundary, clock) ==
    IF ~(currentDateCursor <= recurrenceEndBoundary) THEN <<>>
    ELSE (IF shouldIncludeThisDay(p, currentDateCursor)
          THEN SessionsOnDay(currentDateCursor, p.dailyTimeSlots, clock)
          ELSE <<>>)
         \o (IF p.recurrenceType = "none" THEN <<>>
             ELSE StandardWalk(p, addDays(currentDateCursor, 1),
                               recurrenceEndBoundary, clock))

\* The sessions the custom branch collects, or the error it throws first.
CustomGenerated(p, clock) ==
    IF p.manuallyChosenDates # <<>>
    THEN Success(ManualSessions(p.manuallyChosenDates, p.dailyTimeSlots, clock))
    ELSE IF p.seriesStartDate.tag = "absent" \/ p.seriesEndDate.tag = "absent"
    THEN Failure("MissingBoundary")
    ELSE IF p.seriesStartDate.tag = "invalid" \/ p.seriesEndDate.tag = "invalid"
    THEN Failure("InvalidDate")
    ELSE IF p.seriesStartDate.t > p.seriesEndDate.t
    THEN Failure("InvalidRange")
    ELSE Success(CustomPatternWalk(p, p.seriesStartDate.t, p.seriesEndDate.t, clock))

\* The sessions the standard branch collects, or the error it throws first.
\* An absent seriesEndDate makes the start the boundary; an Invalid Date
\* boundary compares false with everything, so the loop never runs.
StandardGenerated(p, clock) ==
    IF p.seriesStartDate.tag # "date"
    THEN Failure("InvalidSeriesStartDate")
    ELSE IF p.seriesEndDate.tag = "invalid"
    THEN Success(<<>>)
    ELSE Success(StandardWalk(
             p, p.seriesStartDate.t,
             IF p.seriesEndDate.tag = "date" THEN p.seriesEndDate.t
             ELSE p.seriesStartDate.t,
             clock))

\* A variant without the safety nets: the collection is returned as it is.
SafetyNetOff(generated) == generated

\* The two "safety nets": an empty collection is thrown as an error.
SafetyNet(generated) ==
    IF generated.ok /\ generated.sessions = <<>>
    THEN Failure("NoFutureSessions")
    ELSE generated

generateAllClassSessions(p, clock) ==
    IF p.dailyTimeSlots = <<>> THEN Failure("NoTimeSlots")
    ELSE IF p.recurrenceType = "custom"
    THEN SafetyNet(CustomGenerated(p, clock))
    ELSE SafetyNet(StandardGenerated(p, clock))

(***************************************************************************)
(* The ClassSchedule collection                                            *)
(***************************************************************************)
None == <<>>
Some(x) == <<x>>

Instructors == {"i1", "i2"}
Rooms == {"r1", "r2"}

\* A request body the route's schema accepted (classScheduleSchema).
Body(rule, title, instructor, room) ==
    [rule |-> rule, classTitle |-> title,
     assignedInstructor |-> instructor, assignedRoom |-> room]

Rule(kind, start, end, every, weekdays, monthDays, manual, slots) ==
    [recurrenceType |-> kind, seriesStartDate |-> start, seriesEndDate |-> end,
     repeatEveryXWeeksOrDays |-> every, selectedWeekdays |-> weekdays,
     selectedMonthDays |-> monthDays, manuallyChosenDates |-> manual,
     dailyTimeSlots |-> slots]

\* Subdocuments get their _id when the array is persisted.
WithIds(sessions, ids) ==
    [i \in 1..Len(sessions) |->
        [_id |-> ids[i],
         sessionStartDateTime |-> sessions[i].sessionStartDateTime,
         sessionEndDateTime |-> sessions[i].sessionEndDateTime]]

Document(body, sessions, exceptions) ==
    [classTitle |-> body.classTitle,
     assignedInstructor |-> body.assignedInstructor,
     assignedRoom |-> body.assignedRoom,
     rule |-> body.rule,
     preGeneratedClassSessions |-> sessions,
     exceptions |-> exceptions]

\* A variant that stores every exception with the schema's default status.
ExceptionRecordDefaultStatus(originalStart, status, reason) ==
    [originalStart |-> originalStart, status |-> "modified", reason |-> reason,
     newStart |-> Absent, newEnd |-> Absent]

ExceptionRecord(originalStart, status, reason) ==
    [originalStart |-> originalStart, status |-> status, reason |-> reason,
     newStart |-> Absent, newEnd |-> Absent]

\* An exception of status "modified", as the schema stores it.
ModifiedRecord(originalStart, newStart, newEnd) ==
    [originalStart |-> originalStart, status |-> "modified", reason |-> "",
     newStart |-> DateOf(newStart), newEnd |-> DateOf(newEnd)]

\* ClassSchedule.create / findByIdAndDelete on the collection.
Insert(st, id, doc) == [k \in DOMAIN st \cup {id} |-> IF k = id THEN doc ELSE st[k]]
Remove(st, id) == [k \in DOMAIN st \ {id} |-> st[k]]

\* DocumentArray.id(sessionId): the subdocument with that _id, if any.
SessionById(doc, sessionId) ==
    SelectSeq(doc.preGeneratedClassSessions, LAMBDA s : s._id = sessionId)

\* DocumentArray.pull(sessionId)
Pull(sessions, sessionId) == SelectSeq(sessions, LAMBDA s : s._id # sessionId)

(***************************************************************************)
(* Conflict detector                                                       *)
(***************************************************************************)
\* A variant of the clause with $lte in place of $lt: sessions that touch at
\* an end point would count as overlapping.
QueryOverlapClosed(existing, newSess) ==
    /\ existing.sessionStartDateTime <= newSess.sessionEndDateTime
    /\ existing.sessionEndDateTime > newSess.sessionStartDateTime

\* The $elemMatch clause built from one requested session.
QueryOverlap(existing, newSess) ==
    /\ existing.sessionStartDateTime < newSess.sessionEndDateTime
    /\ existing.sessionEndDateTime > newSess.sessionStartDateTime

\* The predicate of the re-scan that picks the session to report.
RescanOverlap(existing, proposed) ==
    /\ proposed.sessionStartDateTime < existing.sessionEndDateTime
    /\ proposed.sessionEndDateTime > existing.sessionStartDateTime

Range(seq) == {seq[i] : i \in DOMAIN seq}

\* baseQuery(field, id): the documents one findOne may return.
BaseQueryMatches(st, field, id, requestedSessions, ignoreSeriesId) ==
    {k \in DOMAIN st :
        /\ st[k][field] = id
        /\ (ignoreSeriesId # None => k # ignoreSeriesId[1])
        /\ \E existing \in Range(st[k].preGeneratedClassSessions) :
              \E newSess \in Range(requestedSessions) :
                  QueryOverlap(existing, newSess)}

\* preGeneratedClassSessions.find(...): the first session, in array order,
\* that overlaps some requested session.
RECURSIVE FirstOverlapping(_, _)
FirstOverlapping(sessions, requestedSessions) ==
    IF sessions = <<>> THEN None
    ELSE IF \E proposed \in Range(requestedSessions) :
                RescanOverlap(Head(sessions), proposed)
    THEN Some(Head(sessions))
    ELSE FirstOverlapping(Tail(sessions), requestedSessions)

\* The call returned null.
NoConflict ==
    [kind |-> "none", field |-> "", entities |-> {},
     instructorConflict |-> None, roomConflict |-> None,
     overlappingSession |-> None]

\* The call threw.
QueryError ==
    [kind |-> "error", field |-> "", entities |-> {},
     instructorConflict |-> None, roomConflict |-> None,
     overlappingSession |-> None]

\* A variant of the report that looks at the room query's match first.
ConflictReportRoomFirst(st, instructorConflict, roomConflict, requestedSessions) ==
    LET conflictSource ==
            IF roomConflict # None THEN roomConflict[1]
            ELSE instructorConflict[1]
    IN  [kind |-> "conflict",
         field |-> IF roomConflict # None
                   THEN "assignedRoom" ELSE "assignedInstructor",
         entities |-> (IF instructorConflict # None THEN {"instructor"} ELSE {})
                      \cup (IF roomConflict # None THEN {"room"} ELSE {}),
         instructorConflict |-> instructorConflict,
         roomConflict |-> roomConflict,
         overlappingSession |->
             FirstOverlapping(st[conflictSource].preGeneratedClassSessions,
                              requestedSessions)]

\* Steps 3-5: the report built from what the two queries returned: the field,
\* the entities the message names, and the one session whose date and times
\* the message gives.
ConflictReport(st, instructorConflict, roomConflict, requestedSessions) ==
    LET conflictSource ==
            IF instructorConflict # None THEN instructorConflict[1]
            ELSE roomConflict[1]
    IN  [kind |-> "conflict",
         field |-> IF instructorConflict # None
                   THEN "assignedInstructor" ELSE "assignedRoom",
         entities |-> (IF instructorConflict # None THEN {"instructor"} ELSE {})
                      \cup (IF roomConflict # None THEN {"room"} ELSE {}),
         instructorConflict |-> instructorConflict,
         roomConflict |-> roomConflict,
         overlappingSession |->
             FirstOverlapping(st[conflictSource].preGeneratedClassSessions,
                              requestedSessions)]

OptionsOf(set) == IF set = {} THEN {None} ELSE {Some(x) : x \in set}

\* Every result the call can give on the collection st.  findOne returns any
\* one matching document.  With no requested session the query holds an
\* empty $or: the server rejects it, or the driver drops the clause and the
\* $elemMatch matches any session, after which the re-scan finds nothing and
\* reading the undefined session throws; only when neither query matches
\* does that call return null.
findDetailedSchedulingConflict(st, requestedSessions, targetRoomId, targetInstructorId, ignoreSeriesId) ==
    IF requestedSessions = <<>>
    THEN {QueryError} \cup
         (IF \E k \in DOMAIN st :
                 /\ (ignoreSeriesId # None => k # ignoreSeriesId[1])
                 /\ st[k].preGeneratedClassSessions # <<>>
                 /\ \/ st[k].assignedInstructor = targetInstructorId
                    \/ st[k].assignedRoom = targetRoomId
          THEN {} ELSE {NoConflict})
    ELSE LET instructorMatches ==
                 BaseQueryMatches(st, "assignedInstructor", targetInstructorId,
                                  requestedSessions, ignoreSeriesId)
             roomMatches ==
                 BaseQueryMatches(st, "assignedRoom", targetRoomId,
                                  requestedSessions, ignoreSeriesId)
         IN  IF instructorMatches = {} /\ roomMatches = {}
             THEN {NoConflict}
             ELSE {ConflictReport(st, ic, rc, requestedSessions) :
                       ic \in OptionsOf(instructorMatches),
                       rc \in OptionsOf(roomMatches)}

(***************************************************************************)
(* Requests in flight.  A handler runs from one await to the next in one   *)
(* step; pc names the call the handler is waiting for.                     *)
(***************************************************************************)
NoBody == Body(Rule("none", Absent, Absent, 1, {}, {}, <<>>, <<>>), "", "", "")

\* The body of PATCH /:seriesId/instances/:sessionId (detachInstanceSchema).
Patch(newStart, newEnd, title, instructor, room) ==
    [newStart |-> newStart, newEnd |-> newEnd, classTitle |-> title,
     assignedInstructor |-> instructor, assignedRoom |-> room,
     reason |-> "Detached from series"]

NoPatch == Patch(Absent, Absent, None, None, None)

\* a || b for an optional request field
OrElse(opt, default) == IF opt = None THEN default ELSE opt[1]

DateOrElse(date, default) == IF date.tag = "date" THEN date.t ELSE default

IdleRequest ==
    [op |-> "none", pc |-> "idle", body |-> NoBody, seriesId |-> 0,
     sessionId |-> 0, patch |-> NoPatch, series |-> None, session |-> None,
     cands |-> <<>>, conflict |-> None, writes |-> 0,
     invalidated |-> FALSE, keys |-> {}, served |-> None, outcome |-> ""]

Begin(op, pc) == [IdleRequest EXCEPT !.op = op, !.pc = pc]

\* A slot is free when no handler runs in it.
Free(r) == reqs[r].pc \in {"idle", "done"}

Respond(r, outcome) == [reqs[r] EXCEPT !.pc = "done", !.outcome = outcome]

\* A variant of the step after the conflict check that goes on to the write
\* whatever the check returned.
CheckVerdictProceeds(r, conflict, writePc, conflictTitle, errorTitle) ==
    [reqs[r] EXCEPT !.pc = writePc, !.conflict = Some(conflict)]

\* After the conflict check: null lets the handler go on to its write, a
\* report is returned to the client, an exception goes to the catch block.
CheckVerdict(r, conflict, writePc, conflictTitle, errorTitle) ==
    IF conflict.kind = "none"
    THEN [reqs[r] EXCEPT !.pc = writePc, !.conflict = Some(conflict)]
    ELSE [Respond(r, IF conflict.kind = "conflict"
                     THEN conflictTitle ELSE errorTitle)
          EXCEPT !.conflict = Some(conflict)]

\* What a store write may do when store errors are considered: with faults
\* the call may also throw.
WriteOutcomes(faults) == IF faults THEN {"written", "threw"} ELSE {"written"}

\* new ObjectId(): ids are never reused while anything can still name them.
\* A series gets the least id that no stored series has and no running
\* handler holds; the sessions of a newly written array get the least ids that
\* no running handler holds.
Running == {r \in DOMAIN reqs : reqs[r].pc \notin {"idle", "done"}}

\* Ids a client may name: those it can see, and one that does not exist.
SeriesIds == DOMAIN store \cup {0}

ExceptionsOf(id) == IF id \in DOMAIN store THEN Len(store[id].exceptions) ELSE 0

SessionIds(id) ==
    (IF id \in DOMAIN store
     THEN {s._id : s \in Range(store[id].preGeneratedClassSessions)}
     ELSE {}) \cup {0}

RECURSIVE LeastUnused(_, _)
LeastUnused(used, n) ==
    IF n = 0 THEN <<>>
    ELSE LET x == CHOOSE i \in 1..(Cardinality(used) + 1) :
                      i \notin used /\ \A j \in 1..(i - 1) : j \in used
         IN  <<x>> \o LeastUnused(used \cup {x}, n - 1)

FreshSeriesId ==
    LeastUnused((DOMAIN store \cup {reqs[r].seriesId : r \in Running}) \ {0}, 1)[1]

FreshSessionIds(n) ==
    LeastUnused({reqs[r].sessionId : r \in Running} \ {0}, n)


(***************************************************************************)
(* Cache (cache.middleware.ts, cache-helper)                               *)
(***************************************************************************)
ClassListKey == "cache:/api/classes"

\* redis.keys(CACHE_KEYS.CLASSES): the cached class-list entries.
KeysMatching(c) == {e \in c : e.key = ClassListKey}

\* invalidateResourceCache("CLASSES") -> clearCache: await redis.keys(...)
InvalidateKeys(r) ==
    /\ reqs[r].pc = "inv_keys"
    /\ reqs' = [reqs EXCEPT ![r] =
           IF KeysMatching(cache) = {}
           THEN [Respond(r, "ok") EXCEPT !.invalidated = TRUE]
           ELSE [@ EXCEPT !.pc = "inv_del", !.keys = KeysMatching(cache)]]
    /\ UNCHANGED <<store, cache, now, payload, result>>

\* clearCache: await redis.del(...keys), then the success response
InvalidateDel(r) ==
    /\ reqs[r].pc = "inv_del"
    /\ cache' = cache \ reqs[r].keys
    /\ reqs' = [reqs EXCEPT ![r] = [Respond(r, "ok") EXCEPT !.invalidated = TRUE]]
    /\ UNCHANGED <<store, now, payload, result>>

\* GET /api/classes through cacheMiddleware
GetStart(r) ==
    /\ Free(r)
    /\ reqs' = [reqs EXCEPT ![r] = Begin("get", "get_lookup")]
    /\ UNCHANGED <<store, cache, now, payload, result>>

\* await redis.get(key): a hit is served from the cache
GetLookup(r) ==
    /\ reqs[r].pc = "get_lookup"
    /\ reqs' = [reqs EXCEPT ![r] =
           IF \E e \in cache : e.key = ClassListKey
           THEN [Respond(r, "ok") EXCEPT
                    !.served = Some((CHOOSE e \in cache : e.key = ClassListKey).body)]
           ELSE [@ EXCEPT !.pc = "get_read"]]
    /\ UNCHANGED <<store, cache, now, payload, result>>

\* await ClassSchedule.aggregate(...); res.json sends the body and issues setex
GetRead(r) ==
    /\ reqs[r].pc = "get_read"
    /\ reqs' = [reqs EXCEPT ![r] =
           [@ EXCEPT !.pc = "get_set", !.served = Some(store), !.outcome = "ok"]]
    /\ UNCHANGED <<store, cache, now, payload, result>>

\* redis.setex(key, 3600, body) takes effect
GetSet(r) ==
    /\ reqs[r].pc = "get_set"
    /\ cache' = {e \in cache : e.key # ClassListKey}
                \cup {[key |-> ClassListKey, body |-> reqs[r].served[1]]}
    /\ reqs' = [reqs EXCEPT ![r].pc = "done"]
    /\ UNCHANGED <<store, now, payload, result>>

(***************************************************************************)
(* POST /api/classes: createClassSeries                                    *)
(***************************************************************************)
CreateStart(r, body) ==
    /\ Free(r)
    /\ Cardinality(DOMAIN store) < MaxSeries
    /\ LET generatedSessions == generateAllClassSessions(body.rule, now)
       IN  reqs' = [reqs EXCEPT ![r] =
               IF generatedSessions.ok
               THEN [Begin("create", "create_check") EXCEPT
                        !.body = body, !.cands = generatedSessions.sessions]
               ELSE [Begin("create", "done") EXCEPT
                        !.body = body, !.outcome = "Validation Error"]]
    /\ UNCHANGED <<store, cache, now, payload, result>>

\* await findDetailedSchedulingConflict(generatedSessions, room, instructor)
CreateCheck(r) ==
    /\ reqs[r].pc = "create_check"
    /\ \E conflict \in findDetailedSchedulingConflict(
                           store, reqs[r].cands, reqs[r].body.assignedRoom,
                           reqs[r].body.assignedInstructor, None) :
          reqs' = [reqs EXCEPT ![r] =
              CheckVerdict(r, conflict, "create_write", "Scheduling Conflict", "Validation Error")]
    /\ UNCHANGED <<store, cache, now, payload, result>>

\* A variant of the create's write step that invalidates the cache in a
\* finally block, whether or not the write succeeded.
CreateWriteThenAlwaysInvalidate(r, faults) ==
    /\ reqs[r].pc = "create_write"
    /\ \E did \in WriteOutcomes(faults) :
          IF did = "written"
          THEN /\ store' = Insert(store, FreshSeriesId,
                       Document(reqs[r].body,
                                WithIds(reqs[r].cands,
                                        FreshSessionIds(Len(reqs[r].cands))),
                                <<>>))
               /\ reqs' = [reqs EXCEPT ![r] =
                      [@ EXCEPT !.pc = "inv_keys", !.writes = @ + 1,
                                !.seriesId = FreshSeriesId]]
          ELSE /\ reqs' = [reqs EXCEPT ![r] =
                      [@ EXCEPT !.pc = "inv_keys",
                                !.outcome = "Validation Error"]]
               /\ UNCHANGED store
    /\ UNCHANGED <<cache, now, payload, result>>

\* await ClassSchedule.create({...req.body, preGeneratedClassSessions})
CreateWrite(r, faults) ==
    /\ reqs[r].pc = "create_write"
    /\ \E did \in WriteOutcomes(faults) :
          IF did = "written"
          THEN /\ store' = Insert(store, FreshSeriesId,
                       Document(reqs[r].body,
                                WithIds(reqs[r].cands,
                                        FreshSessionIds(Len(reqs[r].cands))),
                                <<>>))
               /\ reqs' = [reqs EXCEPT ![r] =
                      [@ EXCEPT !.pc = "inv_keys", !.writes = @ + 1,
                                !.seriesId = FreshSeriesId]]
          ELSE /\ reqs' = [reqs EXCEPT ![r] = Respond(r, "Validation Error")]
               /\ UNCHANGED store
    /\ UNCHANGED <<cache, now, payload, result>>

(***************************************************************************)
(* PUT /api/classes/:id: updateEntireClassSeries                           *)
(***************************************************************************)
\* Step 2 of the handler: re-apply the stored exceptions to a fresh expansion.
\* The filter reads the start the map left in the session.
ApplyManualEdit(sess, exceptions) ==
    LET edits == SelectSeq(exceptions, LAMBDA ex :
                     ex.originalStart = sess.sessionStartDateTime
                     /\ ex.status = "modified")
    IN  IF edits = <<>> THEN sess
        ELSE Session(edits[1].newStart.t, edits[1].newEnd.t)

\* A variant of the filter that lets every session through.
IsCancelledNever(sess, exceptions) == FALSE

IsCancelled(sess, exceptions) ==
    \E ex \in Range(exceptions) :
        ex.originalStart = sess.sessionStartDateTime /\ ex.status = "cancelled"

RECURSIVE Reconcile(_, _)
Reconcile(newSessions, exceptions) ==
    IF newSessions = <<>> THEN <<>>
    ELSE LET edited == ApplyManualEdit(Head(newSessions), exceptions)
         IN  (IF IsCancelled(edited, exceptions) THEN <<>> ELSE <<edited>>)
             \o Reconcile(Tail(newSessions), exceptions)

UpdateStart(r, id, body) ==
    /\ Free(r)
    /\ reqs' = [reqs EXCEPT ![r] =
           [Begin("update", "update_find") EXCEPT !.body = body, !.seriesId = id]]
    /\ UNCHANGED <<store, cache, now, payload, result>>

\* await ClassSchedule.findById(id), then expansion and reconciliation
UpdateFind(r) ==
    /\ reqs[r].pc = "update_find"
    /\ LET id == reqs[r].seriesId
           generated == generateAllClassSessions(reqs[r].body.rule, now)
       IN  reqs' = [reqs EXCEPT ![r] =
               IF id \notin DOMAIN store THEN Respond(r, "Not Found")
               ELSE IF ~generated.ok
               THEN [Respond(r, "Update Error") EXCEPT !.series = Some(store[id])]
               ELSE [@ EXCEPT !.pc = "update_check",
                              !.series = Some(store[id]),
                              !.cands = Reconcile(generated.sessions,
                                                  store[id].exceptions)]]
    /\ UNCHANGED <<store, cache, now, payload, result>>

\* await findDetailedSchedulingConflict(newSessions, room, instructor, id)
UpdateCheck(r) ==
    /\ reqs[r].pc = "update_check"
    /\ \E conflict \in findDetailedSchedulingConflict(
                           store, reqs[r].cands, reqs[r].body.assignedRoom,
                           reqs[r].body.assignedInstructor,
                           Some(reqs[r].seriesId)) :
          reqs' = [reqs EXCEPT ![r] =
              CheckVerdict(r, conflict, "update_write", "Conflict", "Update Error")]
    /\ UNCHANGED <<store, cache, now, payload, result>>

\* await ClassSchedule.findByIdAndUpdate(id, {...req.body, sessions}); a
\* missing document makes it a no-op that still resolves
UpdateWrite(r, faults) ==
    /\ reqs[r].pc = "update_write"
    /\ \E did \in WriteOutcomes(faults) :
          IF did = "written"
          THEN LET id == reqs[r].seriesId
               IN  /\ store' =
                         IF id \in DOMAIN store
                         THEN [store EXCEPT ![id] =
                                  Document(reqs[r].body,
                                           WithIds(reqs[r].cands,
                                                   FreshSessionIds(
                                                       Len(reqs[r].cands))),
                                           store[id].exceptions)]
                         ELSE store
                   /\ reqs' = [reqs EXCEPT ![r] =
                          [@ EXCEPT !.pc = "inv_keys", !.writes = @ + 1]]
          ELSE /\ reqs' = [reqs EXCEPT ![r] = Respond(r, "Update Error")]
               /\ UNCHANGED store
    /\ UNCHANGED <<cache, now, payload, result>>

(***************************************************************************)
(* PATCH /api/classes/:seriesId/instances/:sessionId: updateSingleInstance *)
(***************************************************************************)
\* format(date, "HH:mm")
FormatHHmm(t) == Time((t % MinutesPerDay) \div 60, t % 60)

\* A variant of the in-memory edits that leaves the times of the session alone.
EditStandaloneKeepsTimes(series, patch) ==
    [series EXCEPT
        !.classTitle = OrElse(patch.classTitle, @),
        !.assignedInstructor = OrElse(patch.assignedInstructor, @),
        !.assignedRoom = OrElse(patch.assignedRoom, @)]

\* The in-memory edits of the SINGLE branch (lines 615-623).
EditStandalone(series, patch) ==
    [series EXCEPT
        !.classTitle = OrElse(patch.classTitle, @),
        !.assignedInstructor = OrElse(patch.assignedInstructor, @),
        !.assignedRoom = OrElse(patch.assignedRoom, @),
        !.preGeneratedClassSessions =
            IF @ = <<>> THEN @
            ELSE <<[@[1] EXCEPT
                      !.sessionStartDateTime = DateOrElse(patch.newStart, @),
                      !.sessionEndDateTime = DateOrElse(patch.newEnd, @)]>>
                 \o Tail(@)]

\* Writing a field of preGeneratedClassSessions[0] throws when the array is
\* empty.
EditThrows(series, patch) ==
    /\ series.preGeneratedClassSessions = <<>>
    /\ patch.newStart.tag = "date" \/ patch.newEnd.tag = "date"

\* A variant of the standalone class that takes title, instructor and room
\* from the parent whatever the request overrides.
StandaloneClassOfParent(series, patch, finalStart, finalEnd, sessionId) ==
    Document(
        Body(Rule("none", DateOf(finalStart), DateOf(finalEnd), 1, {}, {}, <<>>,
                  <<Slot(FormatHHmm(finalStart), FormatHHmm(finalEnd))>>),
             series.classTitle, series.assignedInstructor, series.assignedRoom),
        <<[_id |-> sessionId, sessionStartDateTime |-> finalStart,
           sessionEndDateTime |-> finalEnd]>>,
        <<>>)

\* The document ClassSchedule.create receives in step 5 of the detach.
StandaloneClass(series, patch, finalStart, finalEnd, sessionId) ==
    Document(
        Body(Rule("none", DateOf(finalStart), DateOf(finalEnd), 1, {}, {}, <<>>,
                  <<Slot(FormatHHmm(finalStart), FormatHHmm(finalEnd))>>),
             OrElse(patch.classTitle, series.classTitle),
             OrElse(patch.assignedInstructor, series.assignedInstructor),
             OrElse(patch.assignedRoom, series.assignedRoom)),
        <<[_id |-> sessionId, sessionStartDateTime |-> finalStart,
           sessionEndDateTime |-> finalEnd]>>,
        <<>>)

\* A variant of the save that records the exception and keeps the session.
PushWithoutPull(doc, exception, sessionId) ==
    [doc EXCEPT !.exceptions = Append(@, exception)]

\* series.save() after exceptions.push and preGeneratedClassSessions.pull:
\* the two array updates applied to the stored document.
PushAndPull(doc, exception, sessionId) ==
    [doc EXCEPT !.exceptions = Append(@, exception),
                !.preGeneratedClassSessions = Pull(@, sessionId)]

\* A one-off series is edited in place: the request adds neither a series nor
\* an exception.
EditedInPlace(seriesId) ==
    seriesId \in DOMAIN store /\ store[seriesId].rule.recurrenceType = "none"

DetachStart(r, seriesId, sessionId, patch) ==
    /\ Free(r)
    /\ \/ EditedInPlace(seriesId)
       \/ /\ Cardinality(DOMAIN store) < MaxSeries
          /\ ExceptionsOf(seriesId) < MaxExceptions
    /\ reqs' = [reqs EXCEPT ![r] =
           [Begin("detach", "detach_find") EXCEPT
               !.seriesId = seriesId, !.sessionId = sessionId, !.patch = patch]]
    /\ UNCHANGED <<store, cache, now, payload, result>>

\* await ClassSchedule.findById(seriesId), up to the next await
DetachFind(r) ==
    /\ reqs[r].pc = "detach_find"
    /\ LET id == reqs[r].seriesId
           patch == reqs[r].patch
       IN  reqs' = [reqs EXCEPT ![r] =
               IF id \notin DOMAIN store THEN Respond(r, "Not Found")
               ELSE LET series == store[id]
                        session == SessionById(series, reqs[r].sessionId)
                    IN  IF series.rule.recurrenceType = "none"
                        THEN IF EditThrows(series, patch)
                             THEN [Respond(r, "Update Error") EXCEPT
                                      !.series = Some(series)]
                             ELSE [@ EXCEPT
                                      !.op = "edit", !.pc = "edit_save",
                                      !.series =
                                          Some(EditStandalone(series, patch))]
                        ELSE IF session = <<>>
                        THEN [Respond(r, "Not Found") EXCEPT !.series = Some(series)]
                        ELSE LET finalStart ==
                                     DateOrElse(patch.newStart,
                                                session[1].sessionStartDateTime)
                                 finalEnd ==
                                     DateOrElse(patch.newEnd,
                                                session[1].sessionEndDateTime)
                             IN  [@ EXCEPT
                                     !.pc = "detach_check",
                                     !.series = Some(series),
                                     !.session = Some(session[1]),
                                     !.cands = <<Session(finalStart, finalEnd)>>]]
    /\ UNCHANGED <<store, cache, now, payload, result>>

\* SINGLE branch: await series.save(), then the success response.  The save
\* writes the edited paths; it throws when the document is gone.
EditSave(r, faults) ==
    /\ reqs[r].pc = "edit_save"
    /\ \E did \in WriteOutcomes(faults) :
          LET id == reqs[r].seriesId
              edited == reqs[r].series[1]
          IN  IF did = "written" /\ id \in DOMAIN store
              THEN /\ store' = [store EXCEPT ![id] =
                          [@ EXCEPT
                              !.classTitle = edited.classTitle,
                              !.assignedInstructor = edited.assignedInstructor,
                              !.assignedRoom = edited.assignedRoom,
                              !.preGeneratedClassSessions =
                                  IF @ = <<>> \/ edited.preGeneratedClassSessions = <<>>
                                  THEN @
                                  ELSE <<[@[1] EXCEPT
                                            !.sessionStartDateTime =
                                                edited.preGeneratedClassSessions[1]
                                                    .sessionStartDateTime,
                                            !.sessionEndDateTime =
                                                edited.preGeneratedClassSessions[1]
                                                    .sessionEndDateTime]>>
                                       \o Tail(@)]]
                   /\ reqs' = [reqs EXCEPT ![r] =
                          [Respond(r, "ok") EXCEPT !.writes = @ + 1]]
              ELSE /\ reqs' = [reqs EXCEPT ![r] = Respond(r, "Update Error")]
                   /\ UNCHANGED store
    /\ UNCHANGED <<cache, now, payload, result>>

\* await findDetailedSchedulingConflict([{finalStart, finalEnd}], ..., seriesId)
DetachCheck(r) ==
    /\ reqs[r].pc = "detach_check"
    /\ \E conflict \in findDetailedSchedulingConflict(
                           store, reqs[r].cands,
                           OrElse(reqs[r].patch.assignedRoom,
                                  reqs[r].series[1].assignedRoom),
                           OrElse(reqs[r].patch.assignedInstructor,
                                  reqs[r].series[1].assignedInstructor),
                           Some(reqs[r].seriesId)) :
          reqs' = [reqs EXCEPT ![r] =
              CheckVerdict(r, conflict, "detach_create", "Conflict", "Update Error")]
    /\ UNCHANGED <<store, cache, now, payload, result>>

\* step 5: await ClassSchedule.create(the standalone class)
DetachCreate(r, faults) ==
    /\ reqs[r].pc = "detach_create"
    /\ \E did \in WriteOutcomes(faults) :
          IF did = "written"
          THEN /\ store' = Insert(store, FreshSeriesId,
                       StandaloneClass(reqs[r].series[1], reqs[r].patch,
                                       reqs[r].cands[1].sessionStartDateTime,
                                       reqs[r].cands[1].sessionEndDateTime,
                                       FreshSessionIds(1)[1]))
               /\ reqs' = [reqs EXCEPT ![r] =
                      [@ EXCEPT !.pc = "detach_save", !.writes = @ + 1]]
          ELSE /\ reqs' = [reqs EXCEPT ![r] = Respond(r, "Update Error")]
               /\ UNCHANGED store
    /\ UNCHANGED <<cache, now, payload, result>>

\* steps 6-7: exceptions.push, sessions.pull, await series.save()
DetachSave(r, faults) ==
    /\ reqs[r].pc = "detach_save"
    /\ \E did \in WriteOutcomes(faults) :
          LET id == reqs[r].seriesId
          IN  IF did = "written" /\ id \in DOMAIN store
              THEN /\ store' = [store EXCEPT ![id] =
                          PushAndPull(@,
                              ExceptionRecord(
                                  reqs[r].session[1].sessionStartDateTime,
                                  "cancelled", reqs[r].patch.reason),
                              reqs[r].sessionId)]
                   /\ reqs' = [reqs EXCEPT ![r] =
                          [@ EXCEPT !.pc = "inv_keys", !.writes = @ + 1]]
              ELSE /\ reqs' = [reqs EXCEPT ![r] = Respond(r, "Update Error")]
                   /\ UNCHANGED store
    /\ UNCHANGED <<cache, now, payload, result>>

(***************************************************************************)
(* DELETE /api/classes/:seriesId/instances/:sessionId: cancelSingleInstance *)
(***************************************************************************)
CancelStart(r, seriesId, sessionId) ==
    /\ Free(r)
    /\ ExceptionsOf(seriesId) < MaxExceptions
    /\ reqs' = [reqs EXCEPT ![r] =
           [Begin("cancel", "cancel_find") EXCEPT
               !.seriesId = seriesId, !.sessionId = sessionId]]
    /\ UNCHANGED <<store, cache, now, payload, result>>

\* await ClassSchedule.findById(seriesId), then the session lookup
CancelFind(r) ==
    /\ reqs[r].pc = "cancel_find"
    /\ LET id == reqs[r].seriesId
       IN  reqs' = [reqs EXCEPT ![r] =
               IF id \notin DOMAIN store THEN Respond(r, "Not Found")
               ELSE IF SessionById(store[id], reqs[r].sessionId) = <<>>
               THEN [Respond(r, "Not Found") EXCEPT !.series = Some(store[id])]
               ELSE [@ EXCEPT
                        !.pc = "cancel_save",
                        !.series = Some(store[id]),
                        !.session =
                            Some(SessionById(store[id], reqs[r].sessionId)[1])]]
    /\ UNCHANGED <<store, cache, now, payload, result>>

\* exceptions.push, sessions.pull, await series.save()
CancelSave(r, faults) ==
    /\ reqs[r].pc = "cancel_save"
    /\ \E did \in WriteOutcomes(faults) :
          LET id == reqs[r].seriesId
          IN  IF did = "written" /\ id \in DOMAIN store
              THEN /\ store' = [store EXCEPT ![id] =
                          PushAndPull(@,
                              ExceptionRecord(
                                  reqs[r].session[1].sessionStartDateTime,
                                  "cancelled", "Cancelled by user"),
                              reqs[r].sessionId)]
                   /\ reqs' = [reqs EXCEPT ![r] =
                          [@ EXCEPT !.pc = "inv_keys", !.writes = @ + 1]]
              ELSE /\ reqs' = [reqs EXCEPT ![r] = Respond(r, "Cancellation Error")]
                   /\ UNCHANGED store
    /\ UNCHANGED <<cache, now, payload, result>>

(***************************************************************************)
(* DELETE /api/classes/:id: deleteEntireClassSeries                        *)
(***************************************************************************)
DeleteStart(r, id) ==
    /\ Free(r)
    /\ reqs' = [reqs EXCEPT ![r] =
           [Begin("delete", "delete_write") EXCEPT !.seriesId = id]]
    /\ UNCHANGED <<store, cache, now, payload, result>>

\* await ClassSchedule.findByIdAndDelete(id): resolves whether or not the
\* document exists
DeleteWrite(r, faults) ==
    /\ reqs[r].pc = "delete_write"
    /\ \E did \in WriteOutcomes(faults) :
          IF did = "written"
          THEN /\ store' = Remove(store, reqs[r].seriesId)
               /\ reqs' = [reqs EXCEPT ![r] =
                      [@ EXCEPT !.pc = "inv_keys", !.writes = @ + 1]]
          ELSE /\ reqs' = [reqs EXCEPT ![r] = Respond(r, "Delete Error")]
               /\ UNCHANGED store
    /\ UNCHANGED <<cache, now, payload, result>>

(***************************************************************************)
(* The requests the clients send                                           *)
(***************************************************************************)
\* The server clock of the handler runs: noon of day 0.
Clock == At(0, 12, 0)

SlotA == Slot(Time(9, 0), Time(10, 0))
SlotB == Slot(Time(9, 30), Time(10, 30))
SlotC == Slot(Time(10, 0), Time(11, 0))

Single(day, slot) ==
    Rule("none", DateOf(At(day, 0, 0)), Absent, 1, {}, {}, <<>>, <<slot>>)

Daily(firstDay, lastDay, slot) ==
    Rule("daily", DateOf(At(firstDay, 0, 0)), DateOf(At(lastDay, 0, 0)), 1,
         {}, {}, <<>>, <<slot>>)

\* One-off classes on day 1 in three slots (A and B overlap, B and C overlap,
\* A and C are back to back), a two-day daily series, and a class in the past.
Bodies ==
    {Body(Single(1, SlotA), "t1", "i1", "r2"),
     Body(Single(1, SlotC), "t1", "i2", "r1"),
     Body(Single(1, SlotB), "t1", "i1", "r1"),
     Body(Daily(1, 2, SlotA), "t1", "i1", "r1"),
     Body(Single(0, SlotA), "t1", "i1", "r1")}

Patches ==
    {NoPatch,
     Patch(DateOf(At(1, 9, 30)), DateOf(At(1, 10, 30)), None, None, None),
     Patch(Absent, Absent, Some("t2"), Some("i2"), Some("r2"))}

(***************************************************************************)
(* Specifications                                                          *)
(***************************************************************************)
NoPayload == NoBody.rule

NotRun == Failure("not run")

InitOf(slots) ==
    /\ store = <<>>
    /\ cache = {}
    /\ reqs = [r \in slots |-> IdleRequest]
    /\ now = Clock
    /\ payload = NoPayload
    /\ result = NotRun

\* The steps of each handler, for the requests drawn from the given sets.
CreateSteps(r, faults, bodies) ==
    \/ \E body \in bodies : CreateStart(r, body)
    \/ CreateCheck(r)
    \/ CreateWrite(r, faults)

UpdateSteps(r, faults, bodies) ==
    \/ \E id \in SeriesIds, body \in bodies : UpdateStart(r, id, body)
    \/ UpdateFind(r)
    \/ UpdateCheck(r)
    \/ UpdateWrite(r, faults)

DetachSteps(r, faults, patches) ==
    \/ \E id \in SeriesIds : \E sid \in SessionIds(id), patch \in patches :
          DetachStart(r, id, sid, patch)
    \/ DetachFind(r)
    \/ EditSave(r, faults)
    \/ DetachCheck(r)
    \/ DetachCreate(r, faults)
    \/ DetachSave(r, faults)

CancelSteps(r, faults) ==
    \/ \E id \in SeriesIds : \E sid \in SessionIds(id) : CancelStart(r, id, sid)
    \/ CancelFind(r)
    \/ CancelSave(r, faults)

DeleteSteps(r, faults) ==
    \/ \E id \in SeriesIds : DeleteStart(r, id)
    \/ DeleteWrite(r, faults)

GetSteps(r) ==
    \/ GetStart(r)
    \/ GetLookup(r)
    \/ GetRead(r)
    \/ GetSet(r)
    \/ InvalidateDel(r)

\* Requests handled one after the other, the store never failing and the
\* class list never read (so nothing is cached).
Init == InitOf({1})

Next ==
    \/ CreateSteps(1, FALSE, Bodies)
    \/ UpdateSteps(1, FALSE, Bodies)
    \/ DetachSteps(1, FALSE, Patches)
    \/ CancelSteps(1, FALSE)
    \/ DeleteSteps(1, FALSE)
    \/ InvalidateKeys(1)

Spec == Init /\ [][Next]_vars

\* Requests handled one after the other while the store may fail any write
\* and the class list is read through the cache.
FaultBodies ==
    {Body(Single(1, SlotA), "t1", "i1", "r1"),
     Body(Daily(1, 2, SlotA), "t1", "i1", "r1"),
     Body(Single(0, SlotA), "t1", "i1", "r1")}

FaultPatches ==
    {NoPatch,
     Patch(DateOf(At(1, 9, 30)), DateOf(At(1, 10, 30)), None, None, None)}

FaultInit == InitOf({1})

FaultNext ==
    \/ CreateSteps(1, TRUE, FaultBodies)
    \/ UpdateSteps(1, TRUE, FaultBodies)
    \/ DetachSteps(1, TRUE, FaultPatches)
    \/ CancelSteps(1, TRUE)
    \/ DeleteSteps(1, TRUE)
    \/ InvalidateKeys(1)
    \/ GetSteps(1)

FaultSpec == FaultInit /\ [][FaultNext]_vars

\* Two handlers running at once: the event loop interleaves them at their
\* awaits.
ConcBodies ==
    {Body(Single(1, SlotA), "t1", "i1", "r1"),
     Body(Single(1, SlotB), "t1", "i1", "r2"),
     Body(Single(1, SlotC), "t1", "i2", "r1")}

ConcInit == InitOf({1, 2})

ConcNext ==
    \E r \in {1, 2} :
        \/ CreateSteps(r, FALSE, ConcBodies)
        \/ UpdateSteps(r, FALSE, ConcBodies)
        \/ InvalidateKeys(r)

ConcSpec == ConcInit /\ [][ConcNext]_vars

\* Creates, updates and edits of one instance whose overrides carry only a new
\* start (09:45 of day 1) or only a new end (09:00 of day 1).
EditBodies ==
    {Body(Single(1, SlotA), "t1", "i1", "r2"),
     Body(Daily(1, 2, SlotA), "t1", "i1", "r1")}

EditPatches ==
    {NoPatch,
     Patch(DateOf(At(1, 9, 45)), Absent, None, None, None),
     Patch(Absent, DateOf(At(1, 9, 0)), None, None, None)}

EditInit == InitOf({1})

EditNext ==
    \/ CreateSteps(1, FALSE, EditBodies)
    \/ UpdateSteps(1, FALSE, EditBodies)
    \/ DetachSteps(1, FALSE, EditPatches)
    \/ InvalidateKeys(1)

EditSpec == EditInit /\ [][EditNext]_vars

\* The life of a series: created, updated as a whole, split or cancelled one
\* instance at a time, by requests handled one after the other. One rule is
\* a one-off class with two slots that overlap each other.
LifeBodies ==
    {Body(Daily(1, 2, SlotA), "t1", "i1", "r1"),
     Body(Rule("none", DateOf(At(2, 0, 0)), Absent, 1, {}, {}, <<>>, <<SlotA, SlotB>>),
          "t1", "i1", "r1")}

LifePatches ==
    {NoPatch,
     Patch(DateOf(At(1, 11, 0)), DateOf(At(1, 12, 0)), Some("t2"), None, Some("r2"))}

LifeInit == InitOf({1})

LifeNext ==
    \/ CreateSteps(1, FALSE, LifeBodies)
    \/ UpdateSteps(1, FALSE, LifeBodies)
    \/ DetachSteps(1, FALSE, LifePatches)
    \/ CancelSteps(1, FALSE)
    \/ InvalidateKeys(1)

LifeSpec == LifeInit /\ [][LifeNext]_vars

\* Edits of one instance that move it onto the times of another class of the
\* same instructor and room, with writes that may fail.
MoveBodies ==
    {Body(Single(1, SlotA), "t1", "i1", "r1"),
     Body(Single(2, SlotA), "t2", "i1", "r1"),
     Body(Daily(2, 3, SlotA), "t1", "i1", "r1")}

MovePatches ==
    {NoPatch, Patch(DateOf(At(1, 9, 0)), DateOf(At(1, 10, 0)), None, None, None)}

MoveInit == InitOf({1})

MoveNext ==
    \/ CreateSteps(1, TRUE, MoveBodies)
    \/ DetachSteps(1, TRUE, MovePatches)
    \/ InvalidateKeys(1)

MoveSpec == MoveInit /\ [][MoveNext]_vars

\* Reads of the class list through the cache while classes are created and
\* deleted: two handlers interleaved at their awaits.
CacheBodies ==
    {Body(Single(1, SlotA), "t1", "i1", "r1"),
     Body(Single(1, SlotC), "t1", "i2", "r2")}

CacheInit == InitOf({1, 2})

CacheNext ==
    \E r \in {1, 2} :
        \/ CreateSteps(r, FALSE, CacheBodies)
        \/ DeleteSteps(r, FALSE)
        \/ InvalidateKeys(r)
        \/ GetSteps(r)

CacheSpec == CacheInit /\ [][CacheNext]_vars

\* Updates of a stored series whose exceptions are drawn from what the schema
\* of the collection admits: "cancelled" records anchored at a session of the
\* rule or at 11:00 of day 1, and "modified" records that move the 09:00
\* session of day 1 or 2 to 11:00-12:00 of its day. The stored session list is
\* the one the create left; the update neither reads nor keeps it.
MaxAnchored == 2

ReconcileExceptions ==
    {ExceptionRecord(a, "cancelled", "") : a \in {At(1, 9, 0), At(2, 9, 0), At(1, 11, 0)}}
    \cup {ModifiedRecord(a, a + 120, a + 180) : a \in {At(1, 9, 0), At(2, 9, 0)}}

ExceptionLists ==
    UNION {{l \in [1..n -> ReconcileExceptions] :
               \A i, j \in 1..n : i # j => l[i] # l[j]} : n \in 0..MaxAnchored}

ReconcileBodies ==
    {Body(Daily(1, 2, SlotA), "t1", "i1", "r1"),
     Body(Single(1, SlotA), "t2", "i2", "r2"),
     Body(Single(0, SlotA), "t1", "i1", "r1")}

ReconcileInit ==
    /\ \E exceptions \in ExceptionLists :
          store = Insert(<<>>, 1,
                      Document(Body(Daily(1, 2, SlotA), "t1", "i1", "r1"),
                               WithIds(generateAllClassSessions(
                                           Daily(1, 2, SlotA), Clock).sessions,
                                       <<1, 2>>),
                               exceptions))
    /\ cache = {}
    /\ reqs = [r \in {1} |-> IdleRequest]
    /\ now = Clock
    /\ payload = NoPayload
    /\ result = NotRun

ReconcileNext ==
    \/ UpdateSteps(1, FALSE, ReconcileBodies)
    \/ InvalidateKeys(1)

ReconcileSpec == ReconcileInit /\ [][ReconcileNext]_vars

\* Runs of the expander alone, on rules and clocks drawn from small sets.
\* Day 0 is a Monday and the first of a month.
MaxInterval == 2

RecurrenceStrategy == {"none", "daily", "weekly", "monthly", "custom"}

ExpandClocks == {At(0, 8, 29), At(0, 8, 30), At(0, 8, 31), At(9, 0, 0)}

ExpandStarts == {Absent, InvalidDate, DateOf(At(0, 0, 0)), DateOf(At(2, 0, 0))}

ExpandEnds == {Absent, InvalidDate, DateOf(At(0, 0, 0)), DateOf(At(3, 0, 0))}

ExpandManual ==
    {<<>>, <<DateOf(At(1, 0, 0))>>, <<InvalidDate, DateOf(At(0, 0, 0))>>}

ExpandSlots ==
    {<<>>,
     <<SlotA>>,
     <<Slot(Time(9, 0), Time(9, 29))>>,
     <<Slot(Time(9, 0), Time(9, 30))>>,
     <<Slot(BadTime, Time(10, 0)), SlotA>>,
     <<Slot(Time(10, 0), Time(9, 0)), SlotA>>}

ExpandPayloads ==
    {Rule(kind, start, end, every, weekdays, monthDays, manual, slots) :
        kind \in RecurrenceStrategy, start \in ExpandStarts, end \in ExpandEnds,
        every \in 1..MaxInterval, weekdays \in {{}, {3}},
        monthDays \in {{}, {1}, {31}}, manual \in ExpandManual,
        slots \in ExpandSlots}

\* Longer windows: two weeks from a Monday, and the 33 days from 1 January
\* 2024 (day 0), from 30 January 2024 (day 29, a leap year) and from 30
\* January 2025 (day 395, a common year).
LongClocks == {At(0, 8, 30)}

LongPayloads ==
    {Rule(kind, DateOf(At(0, 0, 0)), DateOf(At(13, 0, 0)), every, weekdays, {},
          <<>>, <<SlotA>>) :
        kind \in {"daily", "weekly", "custom"}, every \in 1..MaxInterval,
        weekdays \in {{}, {1, 3}, {0}}}
    \cup
    {Rule("monthly", DateOf(At(first, 0, 0)), DateOf(At(first + 32, 0, 0)), 1,
          {}, monthDays, <<>>, <<SlotA>>) :
        first \in {0, 29, 395}, monthDays \in {{}, {15}, {31}, {30, 31}}}

ExpandInit ==
    /\ store = <<>>
    /\ cache = {}
    /\ reqs = [r \in {1} |-> IdleRequest]
    /\ \/ now \in ExpandClocks /\ payload \in ExpandPayloads
       \/ now \in LongClocks /\ payload \in LongPayloads
    /\ result = NotRun

Expand ==
    /\ result = NotRun
    /\ result' = generateAllClassSessions(payload, now)
    /\ UNCHANGED <<store, cache, reqs, now, payload>>

ExpandNext == Expand

ExpandSpec == ExpandInit /\ [][ExpandNext]_vars

\* The conflict check of a create, run on collections that creates have
\* built: every series of the collection passed its own check against the
\* series written before it.
MaxStored == 3

DetectBodies ==
    {Body(Single(1, slot), "t1", instructor, room) :
        slot \in {SlotA, SlotB, SlotC}, instructor \in Instructors,
        room \in Rooms}

Created(body) ==
    Document(body,
             WithIds(generateAllClassSessions(body.rule, Clock).sessions, <<1>>),
             <<>>)

CreatedInTurn(st) ==
    \A k \in DOMAIN st :
        findDetailedSchedulingConflict(
            [j \in 1..(k - 1) |-> st[j]], st[k].preGeneratedClassSessions,
            st[k].assignedRoom, st[k].assignedInstructor, None) = {NoConflict}

DetectStores ==
    {st \in UNION {[1..n -> {Created(body) : body \in DetectBodies}] :
                      n \in 0..MaxStored} : CreatedInTurn(st)}

DetectInit ==
    /\ store \in DetectStores
    /\ cache = {}
    /\ \E body \in DetectBodies :
          reqs = [r \in {1} |->
                     [Begin("create", "create_check") EXCEPT
                         !.body = body,
                         !.cands = generateAllClassSessions(body.rule, Clock)
                                       .sessions]]
    /\ now = Clock
    /\ payload = NoPayload
    /\ result = NotRun

DetectNext == CreateCheck(1)

DetectSpec == DetectInit /\ [][DetectNext]_vars

(***************************************************************************)
(* Properties                                                              *)
(***************************************************************************)
Sessions(k) == Range(store[k].preGeneratedClassSessions)

\* Two sessions A and B overlap iff A.start < B.end and A.end > B.start.
Overlapping(a, b) ==
    /\ a.sessionStartDateTime < b.sessionEndDateTime
    /\ a.sessionEndDateTime > b.sessionStartDateTime

DoubleBooked(a, b) ==
    /\ a # b
    /\ \/ store[a].assignedRoom = store[b].assignedRoom
       \/ store[a].assignedInstructor = store[b].assignedInstructor
    /\ \E x \in Sessions(a), y \in Sessions(b) : Overlapping(x, y)

\* The arguments a handler passes to the conflict check.
TargetRoom(r) ==
    IF reqs[r].op = "detach"
    THEN OrElse(reqs[r].patch.assignedRoom, reqs[r].series[1].assignedRoom)
    ELSE reqs[r].body.assignedRoom

TargetInstructor(r) ==
    IF reqs[r].op = "detach"
    THEN OrElse(reqs[r].patch.assignedInstructor,
                reqs[r].series[1].assignedInstructor)
    ELSE reqs[r].body.assignedInstructor

Excluded(r) == IF reqs[r].op = "create" THEN None ELSE Some(reqs[r].seriesId)

\* The conflict check of request r has returned and the collection is still
\* the one it ran on.
JustChecked(r) ==
    /\ reqs[r].conflict # None
    /\ \/ reqs[r].pc \in {"create_write", "update_write", "detach_create"}
       \/ reqs[r].pc = "done" /\ reqs[r].conflict[1].kind # "none"

ConflictReported(r) ==
    reqs[r].conflict # None /\ reqs[r].conflict[1].kind = "conflict"

\* Some other series of the target room or instructor holds a session that
\* overlaps a candidate of request r.
ConflictExists(r) ==
    \E k \in DOMAIN store :
        /\ Excluded(r) # Some(k)
        /\ \/ store[k].assignedRoom = TargetRoom(r)
           \/ store[k].assignedInstructor = TargetInstructor(r)
        /\ \E e \in Sessions(k) : \E c \in Range(reqs[r].cands) :
              Overlapping(e, c)

WriteOps == {"create", "update", "detach", "edit", "cancel", "delete"}

Failed(r) == reqs[r].pc = "done" /\ reqs[r].outcome # "ok"

\* C1: whenever no request is running, no two sessions of different series
\* that share a room or an instructor overlap.
C1_NoDoubleBooking ==
    (\A r \in DOMAIN reqs : Free(r)) =>
        \A a, b \in DOMAIN store : ~DoubleBooked(a, b)

\* C2: of two write requests handled at once whose sessions overlap on a
\* shared room or instructor, the series of both are never both persisted.
C2_OneOfTwoConcurrentWritesWins ==
    \A r1, r2 \in DOMAIN reqs :
        (/\ r1 # r2
         /\ reqs[r1].op \in {"create", "update"} /\ reqs[r1].writes >= 1
         /\ reqs[r2].op \in {"create", "update"} /\ reqs[r2].writes >= 1
         /\ reqs[r1].seriesId \in DOMAIN store
         /\ reqs[r2].seriesId \in DOMAIN store)
        => ~DoubleBooked(reqs[r1].seriesId, reqs[r2].seriesId)

\* The expansion of the rule of request r threw.
ExpansionFailed(r) ==
    /\ reqs[r].op \in {"create", "update"}
    /\ reqs[r].pc # "update_find"
    /\ reqs[r].series # None \/ reqs[r].op = "create"
    /\ ~generateAllClassSessions(reqs[r].body.rule, now).ok

\* C3: a request whose expansion fails or for which the conflict check
\* reports a conflict ends as a failure having written nothing; a handler that
\* checks for conflicts writes only after its check returned none; and the
\* collection changes only in a step that is a write of some request.
C3_FailedRequestWritesNothing ==
    /\ [](\A r \in DOMAIN reqs :
            /\ (ExpansionFailed(r) \/ ConflictReported(r)) =>
                   reqs[r].writes = 0 /\ Failed(r)
            /\ (reqs[r].op \in {"create", "update", "detach"}
                /\ reqs[r].writes >= 1) =>
                   reqs[r].conflict = Some(NoConflict))
    /\ [][store' # store =>
             \E r \in DOMAIN reqs : reqs'[r].writes = reqs[r].writes + 1]_vars

C3_Witness ==
    \E r \in DOMAIN reqs :
        /\ ConflictReported(r) /\ Failed(r)
        /\ reqs[r].writes = 0
        /\ store # <<>>

\* C4: the conflict check returns none exactly when no other series of the
\* target room or instructor holds a session overlapping a candidate.
C4_NoneIffNoOverlap ==
    \A r \in DOMAIN reqs :
        JustChecked(r) =>
            (reqs[r].conflict[1].kind = "none" <=> ~ConflictExists(r))

\* C5: in the query and in the re-scan alike, a stored session and a
\* candidate overlap iff each starts strictly before the other ends; the test
\* is symmetric, back-to-back sessions do not overlap, and the session a
\* report names overlaps a candidate.
C5_HalfOpenOverlap ==
    \A r \in DOMAIN reqs :
        JustChecked(r) =>
            /\ \A k \in DOMAIN store : \A e \in Sessions(k) :
                  \A c \in Range(reqs[r].cands) :
                      LET strict ==
                              /\ e.sessionStartDateTime < c.sessionEndDateTime
                              /\ c.sessionStartDateTime < e.sessionEndDateTime
                          touching ==
                              \/ e.sessionEndDateTime = c.sessionStartDateTime
                              \/ c.sessionEndDateTime = e.sessionStartDateTime
                      IN  /\ QueryOverlap(e, c) = strict
                          /\ RescanOverlap(e, c) = strict
                          /\ QueryOverlap(c, e) = QueryOverlap(e, c)
                          /\ RescanOverlap(c, e) = RescanOverlap(e, c)
                          /\ touching => ~QueryOverlap(e, c) /\ ~RescanOverlap(e, c)
            /\ ConflictReported(r) =>
                  /\ reqs[r].conflict[1].overlappingSession # None
                  /\ \E c \in Range(reqs[r].cands) :
                        Overlapping(reqs[r].conflict[1].overlappingSession[1], c)
            /\ (reqs[r].conflict[1].kind = "none" /\ reqs[r].cands # <<>>) =>
                  ~ConflictExists(r)

\* A candidate back to back with a session of a series in the same room
\* passed the check.
C5_Witness ==
    \E r \in DOMAIN reqs :
        /\ JustChecked(r)
        /\ reqs[r].conflict[1].kind = "none"
        /\ \E k \in DOMAIN store :
              /\ Excluded(r) # Some(k)
              /\ store[k].assignedRoom = TargetRoom(r)
              /\ \E e \in Sessions(k) : \E c \in Range(reqs[r].cands) :
                    e.sessionEndDateTime = c.sessionStartDateTime

\* The series a report is about: the instructor query's match if there is
\* one, else the room query's.
ReportedSeries(r) ==
    IF reqs[r].conflict[1].instructorConflict # None
    THEN reqs[r].conflict[1].instructorConflict[1]
    ELSE reqs[r].conflict[1].roomConflict[1]

\* C6: a report's field is the instructor when the instructor of the series
\* it is about is the target instructor, and the room otherwise.
C6_FieldFollowsInstructor ==
    \A r \in DOMAIN reqs :
        (JustChecked(r) /\ ConflictReported(r)) =>
            reqs[r].conflict[1].field =
                IF store[ReportedSeries(r)].assignedInstructor = TargetInstructor(r)
                THEN "assignedInstructor" ELSE "assignedRoom"

\* Both kinds of report have been produced: here a room report.
C6_Witness ==
    \E r \in DOMAIN reqs :
        /\ JustChecked(r) /\ ConflictReported(r)
        /\ reqs[r].conflict[1].field = "assignedRoom"
        /\ store[ReportedSeries(r)].assignedInstructor # TargetInstructor(r)
        /\ store[ReportedSeries(r)].assignedRoom = TargetRoom(r)

\* C7: when one series conflicts on the instructor and another on the room,
\* the report covers both: it names both fields' entities and gives, for each
\* of the two series, a session of that series overlapping a candidate.
C7_BothConflictsReported ==
    \A r \in DOMAIN reqs :
        (/\ JustChecked(r) /\ ConflictReported(r)
         /\ reqs[r].conflict[1].instructorConflict # None
         /\ reqs[r].conflict[1].roomConflict # None
         /\ reqs[r].conflict[1].instructorConflict
                # reqs[r].conflict[1].roomConflict)
        => /\ reqs[r].conflict[1].entities = {"instructor", "room"}
           /\ \A k \in {reqs[r].conflict[1].instructorConflict[1],
                        reqs[r].conflict[1].roomConflict[1]} :
                 \E e \in Sessions(k) :
                     /\ \E c \in Range(reqs[r].cands) : Overlapping(e, c)
                     /\ reqs[r].conflict[1].overlappingSession = Some(e)

\* C8: a request invalidates the cache only after a write of its own
\* succeeded; a request that ends as a failure has invalidated nothing; and
\* the cached class list disappears only in the delete step of such a request.
C8_InvalidationFollowsWrite ==
    /\ [](\A r \in DOMAIN reqs :
            /\ (reqs[r].pc \in {"inv_keys", "inv_del"} \/ reqs[r].invalidated)
                   => reqs[r].writes >= 1
            /\ Failed(r) => ~reqs[r].invalidated)
    /\ [][(KeysMatching(cache) # {} /\ KeysMatching(cache') = {}) =>
             \E r \in DOMAIN reqs :
                 /\ reqs[r].pc = "inv_del" /\ reqs'[r].invalidated
                 /\ reqs[r].writes >= 1]_vars

\* A create passed its check, its write threw, and the cached list is still
\* there.
C8_Witness ==
    \E r \in DOMAIN reqs :
        /\ reqs[r].op = "create" /\ Failed(r)
        /\ reqs[r].conflict = Some(NoConflict)
        /\ reqs[r].writes = 0 /\ ~reqs[r].invalidated
        /\ KeysMatching(cache) # {}

\* C9: every create, update, detach, edit, cancel or delete that succeeds
\* has invalidated the cached class list.
C9_EverySuccessInvalidates ==
    \A r \in DOMAIN reqs :
        (reqs[r].op \in WriteOps /\ reqs[r].pc = "done"
         /\ reqs[r].outcome = "ok") => reqs[r].invalidated

\* The rule passes the checks made before any day is walked.
WalkStarts(p) ==
    /\ p.dailyTimeSlots # <<>>
    /\ IF p.recurrenceType = "custom"
       THEN \/ p.manuallyChosenDates # <<>>
            \/ /\ p.seriesStartDate.tag = "date"
               /\ p.seriesEndDate.tag = "date"
               /\ p.seriesStartDate.t <= p.seriesEndDate.t
       ELSE p.seriesStartDate.tag = "date"

\* Every day the rule names has ended by the clock.
EveryDayPast(p, clock) ==
    \A d \in {p.seriesStartDate, p.seriesEndDate} \cup Range(p.manuallyChosenDates) :
        d.tag = "date" => d.t + MinutesPerDay <= clock

\* C10: the expander never returns an empty collection: a success holds at
\* least one session, and a rule every session of which lies in the past
\* fails with NoFutureSessions.
C10_NeverEmptySuccess ==
    result # NotRun =>
        /\ result.ok => result.sessions # <<>>
        /\ ~result.ok => result.sessions = <<>>
        /\ (WalkStarts(payload) /\ EveryDayPast(payload, now)) =>
               result = Failure("NoFutureSessions")

C10_Witness ==
    /\ result = Failure("NoFutureSessions")
    /\ WalkStarts(payload)
    /\ payload.recurrenceType = "daily"
    /\ EveryDayPast(payload, now)

\* A slot as the rules require it: both times parse, the end is strictly
\* after the start, and it lasts at least 30 minutes.
WellFormedSlot(slot) ==
    /\ ~slot.startTime24h.nan /\ ~slot.endTime24h.nan
    /\ (slot.endTime24h.h * 60 + slot.endTime24h.m)
           - (slot.startTime24h.h * 60 + slot.startTime24h.m) >= 30

InvalidTimeSlot == {"InvalidTimeFormat", "InvalidTimeRange", "DurationTooShort"}

\* C11: the expansion of a rule holding a slot that is malformed, does not
\* end after it starts, or lasts less than 30 minutes fails with
\* InvalidTimeSlot and returns no session.
C11_InvalidSlotFails ==
    (/\ result # NotRun
     /\ WalkStarts(payload)
     /\ \E slot \in Range(payload.dailyTimeSlots) : ~WellFormedSlot(slot))
    => /\ ~result.ok
       /\ result.err \in InvalidTimeSlot
       /\ result.sessions = <<>>

\* The rules that repeat by a pattern: daily, weekly, monthly, and custom
\* without hand-picked dates.
PatternRule(p) ==
    \/ p.recurrenceType \in {"daily", "weekly", "monthly"}
    \/ p.recurrenceType = "custom" /\ p.manuallyChosenDates = <<>>

\* C12: the expansion of a daily, weekly, monthly or custom-pattern rule
\* fails with MissingBoundary when the series end is absent and with
\* InvalidRange when the series end is before the series start; no session is
\* produced and nothing is persisted.
C12_BoundaryRequired ==
    (/\ result # NotRun
     /\ PatternRule(payload)
     /\ payload.dailyTimeSlots # <<>>
     /\ payload.seriesStartDate.tag = "date")
    => /\ payload.seriesEndDate = Absent
          => result = Failure("MissingBoundary") /\ store = <<>>
       /\ (payload.seriesEndDate.tag = "date" /\ payload.seriesEndDate.t < payload.seriesStartDate.t)
          => result = Failure("InvalidRange") /\ store = <<>>

\* The occurrences of a rule: what the expansion collects when called early
\* enough for every start of the rule to pass the future buffer.
Occurrences(p) == Range(generateAllClassSessions(p, 0 - FUTURE_BUFFER_MINUTES).sessions)

PassesBuffer(s, clock) == s.sessionStartDateTime >= clock + 30

\* C13: every session the expander returns starts at or after now + 30
\* minutes; for every recurrence kind, manual dates included, the sessions
\* returned are exactly the occurrences that start at or after now + 30
\* minutes, an occurrence before that (29 minutes from now) being left out
\* with no error while a later one (31 minutes from now) is kept.
C13_FutureBuffer ==
    result # NotRun =>
        /\ \A s \in Range(result.sessions) : PassesBuffer(s, now)
        /\ result.ok <=> \E o \in Occurrences(payload) : PassesBuffer(o, now)
        /\ result.ok => Range(result.sessions) = {o \in Occurrences(payload) : PassesBuffer(o, now)}
        /\ \A o \in Occurrences(payload) :
              /\ o.sessionStartDateTime = now + 29 => o \notin Range(result.sessions)
              /\ o.sessionStartDateTime = now + 31 => result.ok /\ o \in Range(result.sessions)

C13_Witness ==
    /\ result # NotRun /\ result.ok
    /\ \E o \in Occurrences(payload) :
          o.sessionStartDateTime = now + 29 /\ o \notin Range(result.sessions)

\* C14: every session of every persisted series ends after it starts and
\* lasts at least 30 minutes, after any sequence of creates, updates of a
\* whole series and detaches or edits of one instance, with or without
\* newStart and newEnd.
C14_StoredSessionsLongEnough ==
    \A k \in DOMAIN store : \A s \in Sessions(k) :
        /\ s.sessionEndDateTime > s.sessionStartDateTime
        /\ s.sessionEndDateTime - s.sessionStartDateTime >= 30

\* Days are counted from the epoch; the days a result holds a session on.
DayOf(t) == t \div MinutesPerDay

GeneratedDays(r) == {DayOf(s.sessionStartDateTime) : s \in Range(r.sessions)}

\* A rule with a window and slots as the rules require them.
ValidWindow(p) ==
    /\ p.seriesStartDate.tag = "date" /\ p.seriesEndDate.tag = "date"
    /\ p.seriesStartDate.t <= p.seriesEndDate.t
    /\ p.repeatEveryXWeeksOrDays >= 1
    /\ p.dailyTimeSlots # <<>>
    /\ \A slot \in Range(p.dailyTimeSlots) : WellFormedSlot(slot)

FirstDay(p) == DayOf(p.seriesStartDate.t)
LastDay(p) == DayOf(p.seriesEndDate.t)

\* Some slot of the rule, on day d, starts at or after clock + 30 minutes.
SomeSlotPasses(p, d, clock) ==
    \E slot \in Range(p.dailyTimeSlots) :
        d * MinutesPerDay + slot.startTime24h.h * 60 + slot.startTime24h.m >= clock + 30

\* Two generated days with no generated day between them.
Consecutive(days, a, b) == a \in days /\ b \in days /\ a < b /\ \A c \in days : ~(a < c /\ c < b)

\* C15: for a valid daily rule with interval N, a day d of the window is
\* generated exactly when (days between the series start and d) mod N = 0
\* and a slot of d passes the future buffer; consecutive generated days are
\* exactly N days apart and no day after the series end is generated.
C15_DailyEveryNDays ==
    (result # NotRun /\ payload.recurrenceType = "daily" /\ ValidWindow(payload)) =>
        LET N == payload.repeatEveryXWeeksOrDays
            days == GeneratedDays(result)
        IN  /\ days = {d \in FirstDay(payload)..LastDay(payload) :
                          /\ (d - FirstDay(payload)) % N = 0
                          /\ SomeSlotPasses(payload, d, now)}
            /\ \A a, b \in days : Consecutive(days, a, b) => b - a = N
            /\ \A d \in days : d <= LastDay(payload)

C15_Witness ==
    /\ result # NotRun /\ result.ok
    /\ payload.recurrenceType = "daily" /\ ValidWindow(payload)
    /\ payload.repeatEveryXWeeksOrDays = 2
    /\ GeneratedDays(result) = {0, 2, 4, 6, 8, 10, 12}

\* Day 0 is Monday 1 January 2024; Sunday is weekday 0.
Weekday(d) == (d + 1) % 7

CustomPattern(p) == p.recurrenceType = "custom" /\ p.manuallyChosenDates = <<>>

\* C16: for a weekly rule, a day d of the window is generated exactly when
\* (whole weeks from the series start to d) mod N = 0 and the weekday of d is
\* selected (and a slot of d passes the future buffer), so every session
\* falls on a selected weekday; a custom-pattern rule follows the same walk,
\* an empty selection matching every weekday. Mondays and Wednesdays, N = 1,
\* from a Monday to 13 days later with one slot give exactly 4 sessions.
C16_WeeklyWalk ==
    (/\ result # NotRun
     /\ payload.recurrenceType = "weekly" \/ CustomPattern(payload)
     /\ ValidWindow(payload)) =>
        LET N == payload.repeatEveryXWeeksOrDays
            selected(d) == \/ Weekday(d) \in payload.selectedWeekdays
                           \/ CustomPattern(payload) /\ payload.selectedWeekdays = {}
        IN  /\ GeneratedDays(result) =
                   {d \in FirstDay(payload)..LastDay(payload) :
                       /\ ((d - FirstDay(payload)) \div 7) % N = 0
                       /\ selected(d)
                       /\ SomeSlotPasses(payload, d, now)}
            /\ payload.recurrenceType = "weekly" =>
                   \A d \in GeneratedDays(result) : Weekday(d) \in payload.selectedWeekdays
            /\ (/\ payload.selectedWeekdays = {1, 3} /\ N = 1
                /\ Weekday(FirstDay(payload)) = 1
                /\ LastDay(payload) = FirstDay(payload) + 13
                /\ Len(payload.dailyTimeSlots) = 1
                /\ SomeSlotPasses(payload, FirstDay(payload), now))
               => Len(result.sessions) = 4

C16_Witness ==
    /\ result # NotRun /\ result.ok
    /\ payload.recurrenceType = "weekly" /\ ValidWindow(payload)
    /\ payload.selectedWeekdays = {1, 3} /\ payload.repeatEveryXWeeksOrDays = 1
    /\ GeneratedDays(result) = {0, 2, 7, 9}
    /\ Len(result.sessions) = 4

DayOfMonth(d) == getDate(d * MinutesPerDay)
MonthLength(d) == lastDayOfMonth(d * MinutesPerDay)

\* C17: for a monthly rule, a day is generated exactly when its day of the
\* month is selected, or it is the last day of its month and a selected
\* value exceeds the length of that month (and a slot passes the future
\* buffer). With only 31 selected the February session is on 29 February of
\* a leap year and 28 February of a common year, and a month of 31 days has
\* exactly one session day.
C17_MonthlyWalk ==
    (result # NotRun /\ payload.recurrenceType = "monthly" /\ ValidWindow(payload)) =>
        LET days == GeneratedDays(result)
            first == FirstDay(payload)
            last == LastDay(payload)
        IN  /\ days = {d \in first..last :
                          /\ \/ DayOfMonth(d) \in payload.selectedMonthDays
                             \/ /\ DayOfMonth(d) = MonthLength(d)
                                /\ \E m \in payload.selectedMonthDays : m > MonthLength(d)
                          /\ SomeSlotPasses(payload, d, now)}
            /\ (payload.selectedMonthDays = {31} /\ now <= At(0, 8, 30)) =>
                   /\ (first = 0 /\ last = 32) => days = {30}
                   /\ (first = 29 /\ last = 61) => days = {30, 59}
                   /\ (first = 395 /\ last = 427) => days = {396, 424}

C17_Witness ==
    /\ result # NotRun /\ result.ok
    /\ payload.recurrenceType = "monthly" /\ ValidWindow(payload)
    /\ payload.selectedMonthDays = {31}
    /\ GeneratedDays(result) = {396, 424}

\* C18: for a rule that does not repeat, the expander visits the day of the
\* series start only and emits one session for each valid slot of that day
\* that passes the future buffer, whatever the series end is (absent or any
\* date, as the request schema lets through).
C18_SingleDay ==
    (/\ result # NotRun
     /\ payload.recurrenceType = "none"
     /\ payload.seriesStartDate.tag = "date"
     /\ payload.seriesEndDate.tag # "invalid"
     /\ payload.dailyTimeSlots # <<>>) =>
        LET d == FirstDay(payload)
            slots == payload.dailyTimeSlots
            emitted == {i \in DOMAIN slots :
                           /\ WellFormedSlot(slots[i])
                           /\ SomeSlotPasses([payload EXCEPT !.dailyTimeSlots = <<slots[i]>>], d, now)}
        IN  /\ GeneratedDays(result) \subseteq {d}
            /\ Len(result.sessions) = Cardinality(emitted)

\* A session list without the ids of its subdocuments.
Bare(sessions) ==
    [i \in DOMAIN sessions |->
        Session(sessions[i].sessionStartDateTime, sessions[i].sessionEndDateTime)]

\* The exceptions of a status anchored at the start a session was generated
\* with.
Anchored(exceptions, status, sess) ==
    SelectSeq(exceptions, LAMBDA ex :
        ex.status = status /\ ex.originalStart = sess.sessionStartDateTime)

\* The fresh expansion with every session anchored by a "modified" exception
\* replaced by the exception's newStart and newEnd, and every session
\* anchored by a "cancelled" exception removed.
RECURSIVE Reapplied(_, _)
Reapplied(fresh, exceptions) ==
    IF fresh = <<>> THEN <<>>
    ELSE LET sess == Head(fresh)
             edits == Anchored(exceptions, "modified", sess)
         IN  (IF Anchored(exceptions, "cancelled", sess) # <<>> THEN <<>>
              ELSE IF edits # <<>>
              THEN <<Session(edits[1].newStart.t, edits[1].newEnd.t)>>
              ELSE <<sess>>)
             \o Reapplied(Tail(fresh), exceptions)

UpdateChecking == reqs[1].op = "update" /\ reqs[1].pc = "update_check"

UpdateWritten ==
    /\ reqs[1].op = "update" /\ reqs[1].pc = "inv_keys" /\ reqs[1].writes = 1
    /\ reqs[1].seriesId \in DOMAIN store

FreshExpansion == generateAllClassSessions(reqs[1].body.rule, now).sessions

UpdatePersisted ==
    /\ reqs[1].pc = "update_write" /\ reqs'[1].pc = "inv_keys"
    /\ reqs[1].seriesId \in DOMAIN store

CancelledAnchors(doc) ==
    {ex.originalStart : ex \in {e \in Range(doc.exceptions) : e.status = "cancelled"}}

StartsOf(sessions) == {s.sessionStartDateTime : s \in Range(sessions)}

\* C21: an update of a whole series keeps the exceptions of the series as
\* they are and persists no session that starts at the anchor of one of
\* them: an instance that was cancelled or detached is not brought back.
C21_UpdateKeepsCancelledOut ==
    [][UpdatePersisted =>
          LET id == reqs[1].seriesId
          IN  /\ store'[id].exceptions = store[id].exceptions
              /\ CancelledAnchors(store[id])
                     \cap StartsOf(store'[id].preGeneratedClassSessions) = {}]_vars

C21_Witness ==
    /\ UpdateWritten
    /\ store[reqs[1].seriesId].preGeneratedClassSessions # <<>>
    /\ CancelledAnchors(store[reqs[1].seriesId]) \cap StartsOf(FreshExpansion) # {}

\* The two writes of a detach, as steps.
DetachCreated == reqs[1].pc = "detach_create" /\ reqs'[1].pc = "detach_save"

DetachSaved ==
    /\ reqs[1].op = "detach" /\ reqs[1].pc = "detach_save"
    /\ reqs'[1].pc = "inv_keys"

\* The session of a series that a request names by its id.
Named(doc, sessionId) ==
    CHOOSE s \in Range(doc.preGeneratedClassSessions) : s._id = sessionId

Without(sessions, sessionId) == SelectSeq(sessions, LAMBDA s : s._id # sessionId)

\* A value of the request when it is given, else the stored one.
Given(option, stored) == IF option = None THEN stored ELSE option[1]
GivenDate(date, stored) == IF date.tag = "date" THEN date.t ELSE stored

OthersUnchanged(id) ==
    /\ DOMAIN store' = DOMAIN store
    /\ \A k \in DOMAIN store : k # id => store'[k] = store[k]

\* The series after one of its instances was taken out and recorded as
\* cancelled at its start; everything else of the series is as before.
TakenOut(before, after, sessionId) ==
    /\ Len(after.exceptions) = Len(before.exceptions) + 1
    /\ SubSeq(after.exceptions, 1, Len(before.exceptions)) = before.exceptions
    /\ after.exceptions[Len(after.exceptions)].status = "cancelled"
    /\ after.exceptions[Len(after.exceptions)].originalStart
           = Named(before, sessionId).sessionStartDateTime
    /\ after.preGeneratedClassSessions
           = Without(before.preGeneratedClassSessions, sessionId)
    /\ Len(after.preGeneratedClassSessions) = Len(before.preGeneratedClassSessions) - 1
    /\ after.rule = before.rule
    /\ after.classTitle = before.classTitle
    /\ after.assignedInstructor = before.assignedInstructor
    /\ after.assignedRoom = before.assignedRoom

\* C22: a successful detach of session s from a series that repeats creates
\* exactly one new one-off series holding exactly one session, at the
\* override when given and else at the times of s, with the instructor and
\* room of the parent unless overridden; the parent then gains exactly one
\* "cancelled" exception anchored at the start s had, loses exactly s, and
\* the session is held by the new series alone.
C22_DetachSplitsOneInstance ==
    [][LET id == reqs[1].seriesId
           parent == store[id]
           s == Named(parent, reqs[1].sessionId)
           patch == reqs[1].patch
           moved == Session(GivenDate(patch.newStart, s.sessionStartDateTime),
                            GivenDate(patch.newEnd, s.sessionEndDateTime))
       IN  /\ DetachCreated =>
                  /\ parent.rule.recurrenceType # "none"
                  /\ \E new \in DOMAIN store' \ DOMAIN store :
                        /\ DOMAIN store' = DOMAIN store \cup {new}
                        /\ \A k \in DOMAIN store : store'[k] = store[k]
                        /\ store'[new].rule.recurrenceType = "none"
                        /\ Bare(store'[new].preGeneratedClassSessions) = <<moved>>
                        /\ store'[new].assignedInstructor
                               = Given(patch.assignedInstructor, parent.assignedInstructor)
                        /\ store'[new].assignedRoom
                               = Given(patch.assignedRoom, parent.assignedRoom)
                        /\ store'[new].exceptions = <<>>
           /\ DetachSaved =>
                  /\ OthersUnchanged(id)
                  /\ TakenOut(parent, store'[id], reqs[1].sessionId)
                  /\ Cardinality({k \in DOMAIN store' :
                         moved \in Range(Bare(store'[k].preGeneratedClassSessions))}) = 1]_vars

C22_Witness ==
    /\ reqs[1].op = "detach" /\ reqs[1].pc = "inv_keys" /\ reqs[1].writes = 2
    /\ reqs[1].patch.newStart.tag = "date"
    /\ reqs[1].patch.assignedRoom # None
    /\ Cardinality(DOMAIN store) = 2
    /\ store[reqs[1].seriesId].preGeneratedClassSessions # <<>>

\* The step that saves the in-place edit of a one-off series.
EditSaved ==
    /\ reqs[1].op = "edit" /\ reqs[1].pc = "edit_save"
    /\ reqs'[1].pc = "done" /\ reqs'[1].outcome = "ok"

\* C23: an edit of one instance that targets a series which is already a
\* one-off splits nothing: no series is created, no exception is appended,
\* and only the first session of that series (and its title, instructor and
\* room when given) is changed, in place.
C23_OneOffEditedInPlace ==
    [][EditSaved =>
          LET id == reqs[1].seriesId
              before == store[id]
              after == store'[id]
              patch == reqs[1].patch
              old == before.preGeneratedClassSessions
              new == after.preGeneratedClassSessions
          IN  /\ before.rule.recurrenceType = "none"
              /\ OthersUnchanged(id)
              /\ after.exceptions = before.exceptions
              /\ after.rule = before.rule
              /\ after.classTitle = Given(patch.classTitle, before.classTitle)
              /\ after.assignedInstructor
                     = Given(patch.assignedInstructor, before.assignedInstructor)
              /\ after.assignedRoom = Given(patch.assignedRoom, before.assignedRoom)
              /\ Len(new) = Len(old)
              /\ \A i \in DOMAIN old :
                    /\ new[i]._id = old[i]._id
                    /\ i > 1 => new[i] = old[i]
              /\ old # <<>> =>
                    /\ new[1].sessionStartDateTime
                           = GivenDate(patch.newStart, old[1].sessionStartDateTime)
                    /\ new[1].sessionEndDateTime
                           = GivenDate(patch.newEnd, old[1].sessionEndDateTime)]_vars

C23_Witness ==
    /\ reqs[1].op = "edit" /\ reqs[1].pc = "done" /\ reqs[1].outcome = "ok"
    /\ reqs[1].patch.newStart.tag = "date"
    /\ reqs[1].seriesId \in DOMAIN store
    /\ LET doc == store[reqs[1].seriesId]
       IN  /\ Len(doc.preGeneratedClassSessions) = 2
           /\ doc.preGeneratedClassSessions[1].sessionStartDateTime
                  = reqs[1].patch.newStart.t
           /\ doc.assignedRoom = reqs[1].patch.assignedRoom[1]
           /\ doc.exceptions = <<>>

\* The request in slot r names a series the collection does not hold, or a
\* session the named series does not hold, as its handler looks them up.
NamesAbsent(r) ==
    /\ reqs[r].pc \in {"update_find", "detach_find", "cancel_find"}
    /\ \/ reqs[r].seriesId \notin DOMAIN store
       \/ /\ reqs[r].pc \in {"detach_find", "cancel_find"}
          /\ \A s \in Sessions(reqs[r].seriesId) : s._id # reqs[r].sessionId

\* C24: an update of a whole series, a detach or edit of an instance, or a
\* cancel of an instance that names a series the collection does not hold,
\* or a session the named series does not hold, is answered NotFound and
\* changes neither the collection nor the cache.
C24_AbsentIdsNotFound ==
    [][NamesAbsent(1) =>
          /\ reqs'[1].pc = "done" /\ reqs'[1].outcome = "Not Found"
          /\ store' = store /\ cache' = cache]_vars

\* The step that saves a cancel.
CancelSaved ==
    /\ reqs[1].op = "cancel" /\ reqs[1].pc = "cancel_save"
    /\ reqs'[1].pc = "inv_keys"

DetachFailedBetween ==
    /\ reqs[1].op = "detach" /\ reqs[1].pc = "detach_save"
    /\ reqs'[1].pc = "done" /\ reqs'[1].outcome = "Update Error"

\* Two series of the same instructor and room hold the same session times.
SharedOccurrence ==
    \E a, b \in DOMAIN store :
        /\ a # b
        /\ store[a].assignedInstructor = store[b].assignedInstructor
        /\ store[a].assignedRoom = store[b].assignedRoom
        /\ Range(Bare(store[a].preGeneratedClassSessions))
               \cap Range(Bare(store[b].preGeneratedClassSessions)) # {}

Invalidating == \E r \in DOMAIN reqs : reqs[r].pc \in {"inv_keys", "inv_del"}

\* C27: under any interleaving of a cached read of the class list with a
\* mutation, once the mutation has returned success the cache holds no
\* response computed from a read of the collection made before it: a cached
\* class list differs from the collection only while a mutation that has
\* written is still invalidating.
C27_CacheNeverStaleAfterSuccess ==
    (\E e \in KeysMatching(cache) : e.body # store) => Invalidating

\* C28: within any single persisted series no two distinct sessions overlap
\* each other in time, also when the rule's time slots overlap on one day.
C28_NoOverlapWithinSeries ==
    \A k \in DOMAIN store :
        LET sessions == store[k].preGeneratedClassSessions
        IN  \A i, j \in DOMAIN sessions :
                i # j => ~Overlapping(sessions[i], sessions[j])

\* C29: every persisted series holds at least one session after any sequence
\* of create, update of the whole series, detach and cancel.
C29_SeriesNeverEmpty ==
    \A k \in DOMAIN store : store[k].preGeneratedClassSessions # <<>>

\* C30: in every reachable state every exception of every series has status
\* "cancelled" and carries neither newStart nor newEnd, so the substitution of
\* "modified" exceptions in an update of a whole series leaves every generated
\* session as it was generated.
C30_OnlyCancelledExceptions ==
    /\ \A k \in DOMAIN store : \A ex \in Range(store[k].exceptions) :
          ex.status = "cancelled" /\ ex.newStart = Absent /\ ex.newEnd = Absent
    /\ UpdateChecking =>
          \A i \in DOMAIN FreshExpansion :
              ApplyManualEdit(FreshExpansion[i], reqs[1].series[1].exceptions)
                  = FreshExpansion[i]

\* An update is reconciling a series that holds an exception anchored at a
\* session the new rule generates.
C30_Witness ==
    /\ UpdateChecking
    /\ \E ex \in Range(reqs[1].series[1].exceptions) :
          ex.originalStart \in StartsOf(FreshExpansion)

====
